---- MODULE Spec2Model ----
(***************************************************************************)
(* The response-caching plugin of proxy.py                                *)
(* (proxy/plugin/cache/base.py, BaseCacheResponsesPlugin, and              *)
(* proxy/plugin/cache/cache_responses.py, CacheResponsesPlugin).           *)
(*                                                                         *)
(* One plugin instance serves one client connection.  The host engine      *)
(* calls its four hooks; the hooks call the cache store and enqueue        *)
(* responses to the client.  The two class-level events `enabled` and      *)
(* `local` are shared by every instance and every worker.                  *)
(***************************************************************************)
EXTENDS Integers, Sequences, FiniteSets, TLC

\* ------------------------------------------------------------------ bounds
MaxCalls == 4        \* hook invocations the host makes on one connection
MaxChunks == 2       \* chunks of one upstream response
MaxStreamCalls == 5  \* hook invocations on a connection whose flags stay put
MaxPeerCalls == 2    \* hook invocations on a second connection sharing the process

\* --------------------------------------------------------------- constants
Conns == {"A", "B"}                     \* plugin instances (one per connection)
Paths == {"/get", "/test1"}             \* resources a client asks for
CONNECT == "CONNECT"
GET == "GET"
REQUEST_PARSER == "REQUEST_PARSER"
RESPONSE_PARSER == "RESPONSE_PARSER"
BAD_GATEWAY == 502
INTERNAL_SERVER_ERROR == 500
PROXY_AGENT_HEADER_VALUE == "proxy.py"

\* Python's None, for an Optional object (a request, a message, a chunk)
None == [type |-> "NoneType"]

\* Python's None, for an Optional[bytes] field
NoneBytes == "None"

\* no exception left the hook
NoRaise == "NoRaise"

\* How the store behaves when called (its condition, set by its environment):
\*   ok            every operation works and hands back what it was given
\*   rewrite       every operation works; cache_request and
\*                 cache_response_chunk hand back objects of the store's own
\*   lookup_fails  is_cached raises
\*   request_fails cache_request raises
\*   bad_type      cache_request returns a message that is neither a request
\*                 nor a response
\*   all_fail      every operation raises
StoreModes == {"ok", "rewrite", "lookup_fails", "request_fails", "bad_type", "all_fail"}

VARIABLES
    enabled,        \* BaseCacheResponsesPlugin.enabled (multiprocessing.Event)
    local,          \* BaseCacheResponsesPlugin.local   (multiprocessing.Event)
    __enabled,      \* self.__enabled of each instance: <<>> is None, <<b>> is b
    __local,        \* self.__local of each instance
    store,          \* self.store of each instance: the handle of its store
    client,         \* self.client of each instance: the responses queued to it
    cached,         \* the store: the paths that have a cache entry
    recording,      \* the store: per handle, the path being recorded
    storeMode,      \* the store: its condition (see StoreModes)
    storeLog,       \* every store operation invoked so far, in order
    hostRequest,    \* host: the request given to before_upstream_connection
                    \*       that handle_client_request has not seen yet
    nreq,           \* host: requests received from the client so far
    connected,      \* host: it opened the upstream connection
    pending,        \* host: ids of the requests forwarded upstream whose
                    \*       response is not complete, oldest first
    nchunk,         \* host: chunks received of the oldest pending response
    closed,         \* host: on_upstream_connection_close was invoked
    ncalls,         \* host: hook invocations made on the connection
    budget,         \* host: hook invocations it makes on the connection at
                    \*       most (what bounds a behaviour)
    last            \* the last hook invocation: its input, its outcome and
                    \*       the store's condition while it ran

vars == <<enabled, local, __enabled, __local, store, client, cached, recording,
          storeMode, storeLog, hostRequest, nreq, connected, pending, nchunk,
          closed, ncalls, budget, last>>

\* ------------------------------------------------------------- the messages
Request(method, path, id) ==
    [type |-> REQUEST_PARSER, method |-> method, path |-> path, id |-> id,
     by |-> "client"]

Chunk(id, n) == [type |-> "chunk", id |-> id, n |-> n, by |-> "upstream"]

\* HttpParser.headers: lower-cased name -> (name, value)
Stored(path) ==
    IF path = "/get"
    THEN [type |-> RESPONSE_PARSER, code |-> "200", reason |-> "OK",
          headers |-> ("server" :> <<"Server", "upstream">>)
                      @@ ("content-length" :> <<"Content-Length", "19">>),
          body |-> "Response From Cache"]
    ELSE [type |-> RESPONSE_PARSER, code |-> NoneBytes, reason |-> NoneBytes,
          headers |-> ("content-type" :> <<"Content-Type", "text/plain">>),
          body |-> "Response 1 From Cache"]

\* int(b'200')
int(code) == CASE code = "200" -> 200 [] code = "404" -> 404

\* {k: v for k, v in msg.headers.values()}
HeaderDict(headers) ==
    LET values == {headers[l] : l \in DOMAIN headers}
    IN [k \in {kv[1] : kv \in values} |->
            (CHOOSE kv \in values : kv[1] = k)[2]]

build_http_response(code, reason, headers, body) ==
    [type |-> "response", code |-> code, reason |-> reason,
     headers |-> headers, body |-> body]

\* ---------------------------------------------------------------- the store
\* An answer of the store: raised, or the value returned.
is_cached(request) ==
    IF storeMode \in {"lookup_fails", "all_fail"}
    THEN [raised |-> TRUE, out |-> "raise", val |-> None]
    ELSE [raised |-> FALSE,
          out |-> IF request.path \in cached THEN "True" ELSE "False",
          val |-> None]

cache_request(request) ==
    IF storeMode \in {"request_fails", "all_fail"}
    THEN [raised |-> TRUE, out |-> "raise", val |-> None]
    ELSE IF storeMode = "bad_type"
    THEN [raised |-> FALSE, out |-> "UNKNOWN", val |-> [type |-> "UNKNOWN"]]
    ELSE IF request.path \in cached
    THEN [raised |-> FALSE, out |-> RESPONSE_PARSER, val |-> Stored(request.path)]
    ELSE [raised |-> FALSE, out |-> REQUEST_PARSER,
          val |-> IF storeMode = "rewrite"
                  THEN [request EXCEPT !.by = "store"] ELSE request]

cache_response_chunk(chunk) ==
    IF storeMode = "all_fail"
    THEN [raised |-> TRUE, out |-> "raise", val |-> None]
    ELSE [raised |-> FALSE, out |-> "chunk",
          val |-> IF storeMode = "rewrite"
                  THEN [chunk EXCEPT !.by = "store"] ELSE chunk]

close ==
    IF storeMode = "all_fail"
    THEN [raised |-> TRUE, out |-> "raise", val |-> None]
    ELSE [raised |-> FALSE, out |-> "None", val |-> None]

\* One invocation of a store operation, as a hook made it.
Call(op, handle, arg, answer) ==
    [op |-> op, store |-> handle, arg |-> arg, out |-> answer.out,
     val |-> answer.val]

\* The store's state after the invocations `calls`, made in this order.
RECURSIVE StoreAfter(_, _)
StoreAfter(st, calls) ==
    IF calls = <<>> THEN st
    ELSE LET c == Head(calls)
             next ==
                 IF c.op = "cache_request" /\ c.out = REQUEST_PARSER
                 THEN [st EXCEPT !.recording[c.store] = c.arg.path]
                 ELSE IF c.op = "close" /\ c.out = "None"
                 THEN [cached |-> IF st.recording[c.store] = NoneBytes
                                  THEN st.cached
                                  ELSE st.cached \cup {st.recording[c.store]},
                       recording |-> [st.recording EXCEPT ![c.store] = NoneBytes]]
                 ELSE st
         IN StoreAfter(next, Tail(calls))

\* ---------------------------------------------------------------- the hooks
\* A hook's outcome: the value returned (None when it raised), the exception
\* that left it, the store operations it invoked, the responses it queued to
\* the client, and self.__enabled / self.__local when it ended.
Outcome(ret, raised, calls, queued, en, lo) ==
    [ret |-> ret, raised |-> raised, calls |-> calls, queued |-> queued,
     enabled |-> en, local |-> lo]

\* (mutant) a tunnel is let through even when `local` is set
ConnectTunnelAlways(request, lo) == request

\* line 75: a tunnel is let through unless `local` is set
ConnectTunnel(request, lo) == IF ~lo THEN request ELSE None

\* (mutant) a fault of is_cached blocks the request
LookupFailsClosed(request, a) ==
    IF a.raised \/ a.out = "True" THEN None ELSE request

\* (mutant) a hit is not honoured: the request is always let by
LookupIgnoresHit(request, a) == request

\* lines 77-83: the answer `a` of is_cached decides; a fault lets the request by
LookupBeforeConnect(request, a) ==
    IF ~a.raised /\ a.out = "True" THEN None ELSE request
\* (mutant) a lookup that raised is tried a second time
before_upstream_connection_retries(self, request) ==
    LET en == enabled
        lo == local
        Return(ret, calls) == Outcome(ret, NoRaise, calls, <<>>, <<en>>, <<lo>>)
    IN  IF ~en THEN Return(request, <<>>)
        ELSE IF store[self] = NoneBytes
        THEN Outcome(None, "AssertionError", <<>>, <<>>, <<en>>, <<lo>>)
        ELSE IF request.method = CONNECT
        THEN Return(ConnectTunnel(request, lo), <<>>)
        ELSE LET a == is_cached(request)
                 c == Call("is_cached", store[self], request, a)
             IN Return(LookupBeforeConnect(request, a),
                       IF a.raised THEN <<c, c>> ELSE <<c>>)

before_upstream_connection(self, request) ==
    LET en == enabled
        lo == local
        Return(ret, calls) == Outcome(ret, NoRaise, calls, <<>>, <<en>>, <<lo>>)
    IN  IF ~en THEN Return(request, <<>>)
        ELSE IF store[self] = NoneBytes
        THEN Outcome(None, "AssertionError", <<>>, <<>>, <<en>>, <<lo>>)
        ELSE IF request.method = CONNECT
        THEN Return(ConnectTunnel(request, lo), <<>>)
        ELSE LET a == is_cached(request)
             IN Return(LookupBeforeConnect(request, a),
                       <<Call("is_cached", store[self], request, a)>>)

\* What the try blocks of handle_client_request end with: the value to
\* return, the exception that leaves the hook and the responses queued.
Handled(ret, queued) == [ret |-> ret, raised |-> NoRaise, queued |-> queued]

\* (mutant) the 502 does not ask the client to close
Response502KeepsAlive ==
    build_http_response(
        BAD_GATEWAY, "Bad gateway",
        ("Server" :> PROXY_AGENT_HEADER_VALUE),
        "Ressource has not been cached yet. Please allow upstream.")

\* lines 103-111
Response502 ==
    build_http_response(
        BAD_GATEWAY, "Bad gateway",
        ("Server" :> PROXY_AGENT_HEADER_VALUE) @@ ("Connection" :> "close"),
        "Ressource has not been cached yet. Please allow upstream.")

\* (mutant) a cached message without a status code is replayed as a 200
CachedResponseDefault200(msg) ==
    build_http_response(
        IF msg.code # NoneBytes THEN int(msg.code) ELSE 200,
        msg.reason, HeaderDict(msg.headers), msg.body)

\* lines 115-120
CachedResponse(msg) ==
    build_http_response(
        IF msg.code # NoneBytes THEN int(msg.code) ELSE 0,
        msg.reason, HeaderDict(msg.headers), msg.body)

\* (mutant) the 500 does not name the proxy
Response500Anonymous ==
    build_http_response(
        INTERNAL_SERVER_ERROR, "Internal server error",
        ("Connection" :> "close"),
        NoneBytes)

\* lines 129-136
Response500 ==
    build_http_response(
        INTERNAL_SERVER_ERROR, "Internal server error",
        ("Server" :> PROXY_AGENT_HEADER_VALUE) @@ ("Connection" :> "close"),
        NoneBytes)

\* (mutant) the 502 is queued, and the request is forwarded all the same
RequestKindForwards(msg, lo) ==
    Handled(msg, IF lo THEN <<Response502>> ELSE <<>>)

\* (mutant) nothing is ever forwarded on a miss
RequestKindNeverForwards(msg, lo) ==
    Handled(None, IF lo THEN <<Response502>> ELSE <<>>)
\* (mutant) the request as the client sent it is handed back, not the store's
RequestKindReturnsReceived(msg, lo) ==
    IF lo THEN Handled(None, <<Response502>>)
    ELSE Handled([msg EXCEPT !.by = "client"], <<>>)

\* lines 101-113: the store has no entry and is ready to record
RequestKind(msg, lo) ==
    IF lo THEN Handled(None, <<Response502>>) ELSE Handled(msg, <<>>)

\* (mutant) a cached response is found and the request dropped without reply
ResponseKindSilent(msg) == Handled(None, <<>>)

\* lines 114-121: the store holds the response
ResponseKind(msg) == Handled(None, <<CachedResponse(msg)>>)

\* (mutant) the second look at is_cached is not guarded by a try
FailOpenPropagates(request, b) ==
    IF b.raised THEN [ret |-> None, raised |-> "Exception", queued |-> <<>>]
    ELSE IF b.out = "True" THEN Handled(request, <<Response500>>)
    ELSE Handled(request, <<>>)

\* (mutant) after the 500 the request is not handed back
FailOpenBlocksOnHit(request, b) ==
    IF ~b.raised /\ b.out = "True"
    THEN Handled(None, <<Response500>>)
    ELSE Handled(request, <<>>)
\* (mutant) the 500 is queued a second time before the request is handed back
FailOpenQueuesTwice(request, b) ==
    IF ~b.raised /\ b.out = "True"
    THEN Handled(request, <<Response500, Response500>>)
    ELSE Handled(request, <<>>)

\* lines 124-140: cache_request raised or returned an unknown kind of
\* message; `b` is the answer of the second look at is_cached
FailOpen(request, b) ==
    IF ~b.raised /\ b.out = "True"
    THEN Handled(request, <<Response500>>)
    ELSE Handled(request, <<>>)

handle_client_request(self, request) ==
    LET en == __enabled[self]
        lo == __local[self]
        Return(h, calls) == Outcome(h.ret, h.raised, calls, h.queued, en, lo)
        Raise(e, calls) == Outcome(None, e, calls, <<>>, en, lo)
    IN  IF en = <<>> \/ lo = <<>> THEN Raise("AssertionError", <<>>)
        ELSE IF ~en[1] THEN Return(Handled(request, <<>>), <<>>)
        ELSE IF store[self] = NoneBytes THEN Raise("AssertionError", <<>>)
        ELSE IF request.method = CONNECT THEN Return(Handled(request, <<>>), <<>>)
        ELSE
        LET a == cache_request(request)
            c1 == Call("cache_request", store[self], request, a)
        IN  IF ~a.raised /\ a.val.type = REQUEST_PARSER
            THEN Return(RequestKind(a.val, lo[1]), <<c1>>)
            ELSE IF ~a.raised /\ a.val.type = RESPONSE_PARSER
            THEN Return(ResponseKind(a.val), <<c1>>)
            ELSE LET b == is_cached(request)
                 IN Return(FailOpen(request, b),
                           <<c1, Call("is_cached", store[self], request, b)>>)

\* (mutant) the enabled snapshot is not looked at
handle_upstream_chunk_unguarded(self, chunk) ==
    LET en == __enabled[self]
        lo == __local[self]
        a == cache_response_chunk(chunk)
        c == Call("cache_response_chunk", store[self], chunk, a)
    IN  IF en = <<>> \/ lo = <<>>
        THEN Outcome(None, "AssertionError", <<>>, <<>>, en, lo)
        ELSE IF a.raised
        THEN Outcome(None, "Exception", <<c>>, <<>>, en, lo)
        ELSE Outcome(a.val, NoRaise, <<c>>, <<>>, en, lo)

\* (mutant) the chunk read from upstream is relayed, not the store's value
handle_upstream_chunk_relays_input(self, chunk) ==
    LET en == __enabled[self]
        lo == __local[self]
    IN  IF en = <<>> \/ lo = <<>>
        THEN Outcome(None, "AssertionError", <<>>, <<>>, en, lo)
        ELSE IF ~en[1] THEN Outcome(chunk, NoRaise, <<>>, <<>>, en, lo)
        ELSE IF store[self] = NoneBytes
        THEN Outcome(None, "AssertionError", <<>>, <<>>, en, lo)
        ELSE LET a == cache_response_chunk(chunk)
                 c == Call("cache_response_chunk", store[self], chunk, a)
             IN IF a.raised
                THEN Outcome(None, "Exception", <<c>>, <<>>, en, lo)
                ELSE Outcome(chunk, NoRaise, <<c>>, <<>>, en, lo)

\* (mutant) a fault of the store is swallowed and the chunk passed on
handle_upstream_chunk_fails_open(self, chunk) ==
    LET en == __enabled[self]
        lo == __local[self]
    IN  IF en = <<>> \/ lo = <<>>
        THEN Outcome(None, "AssertionError", <<>>, <<>>, en, lo)
        ELSE IF ~en[1] THEN Outcome(chunk, NoRaise, <<>>, <<>>, en, lo)
        ELSE IF store[self] = NoneBytes
        THEN Outcome(None, "AssertionError", <<>>, <<>>, en, lo)
        ELSE LET a == cache_response_chunk(chunk)
                 c == Call("cache_response_chunk", store[self], chunk, a)
             IN IF a.raised
                THEN Outcome(chunk, NoRaise, <<c>>, <<>>, en, lo)
                ELSE Outcome(a.val, NoRaise, <<c>>, <<>>, en, lo)

handle_upstream_chunk(self, chunk) ==
    LET en == __enabled[self]
        lo == __local[self]
    IN  IF en = <<>> \/ lo = <<>>
        THEN Outcome(None, "AssertionError", <<>>, <<>>, en, lo)
        ELSE IF ~en[1] THEN Outcome(chunk, NoRaise, <<>>, <<>>, en, lo)
        ELSE IF store[self] = NoneBytes
        THEN Outcome(None, "AssertionError", <<>>, <<>>, en, lo)
        ELSE LET a == cache_response_chunk(chunk)
                 c == Call("cache_response_chunk", store[self], chunk, a)
             IN IF a.raised
                THEN Outcome(None, "Exception", <<c>>, <<>>, en, lo)
                ELSE Outcome(a.val, NoRaise, <<c>>, <<>>, en, lo)

\* (mutant) an unset snapshot is taken for a disabled one
on_upstream_connection_close_unasserted(self) ==
    LET en == __enabled[self]
        lo == __local[self]
    IN  IF en = <<>> \/ lo = <<>>
        THEN Outcome(None, NoRaise, <<>>, <<>>, en, lo)
        ELSE IF ~en[1] THEN Outcome(None, NoRaise, <<>>, <<>>, en, lo)
        ELSE IF store[self] = NoneBytes
        THEN Outcome(None, "AssertionError", <<>>, <<>>, en, lo)
        ELSE LET a == close
                 c == Call("close", store[self], None, a)
             IN IF a.raised
                THEN Outcome(None, "Exception", <<c>>, <<>>, en, lo)
                ELSE Outcome(None, NoRaise, <<c>>, <<>>, en, lo)

\* (mutant) the flag is read where the snapshot should be
on_upstream_connection_close_reads_flag(self) ==
    LET en == __enabled[self]
        lo == __local[self]
    IN  IF en = <<>> \/ lo = <<>>
        THEN Outcome(None, "AssertionError", <<>>, <<>>, en, lo)
        ELSE IF ~enabled THEN Outcome(None, NoRaise, <<>>, <<>>, en, lo)
        ELSE IF store[self] = NoneBytes
        THEN Outcome(None, "AssertionError", <<>>, <<>>, en, lo)
        ELSE LET a == close
                 c == Call("close", store[self], None, a)
             IN IF a.raised
                THEN Outcome(None, "Exception", <<c>>, <<>>, en, lo)
                ELSE Outcome(None, NoRaise, <<c>>, <<>>, en, lo)
\* (mutant) the store is closed only when a recording was started
on_upstream_connection_close_only_recording(self) ==
    LET en == __enabled[self]
        lo == __local[self]
    IN  IF en = <<>> \/ lo = <<>>
        THEN Outcome(None, "AssertionError", <<>>, <<>>, en, lo)
        ELSE IF ~en[1] THEN Outcome(None, NoRaise, <<>>, <<>>, en, lo)
        ELSE IF store[self] = NoneBytes
        THEN Outcome(None, "AssertionError", <<>>, <<>>, en, lo)
        ELSE IF recording[store[self]] = NoneBytes
        THEN Outcome(None, NoRaise, <<>>, <<>>, en, lo)
        ELSE LET a == close
                 c == Call("close", store[self], None, a)
             IN IF a.raised
                THEN Outcome(None, "Exception", <<c>>, <<>>, en, lo)
                ELSE Outcome(None, NoRaise, <<c>>, <<>>, en, lo)

on_upstream_connection_close(self) ==
    LET en == __enabled[self]
        lo == __local[self]
    IN  IF en = <<>> \/ lo = <<>>
        THEN Outcome(None, "AssertionError", <<>>, <<>>, en, lo)
        ELSE IF ~en[1] THEN Outcome(None, NoRaise, <<>>, <<>>, en, lo)
        ELSE IF store[self] = NoneBytes
        THEN Outcome(None, "AssertionError", <<>>, <<>>, en, lo)
        ELSE LET a == close
                 c == Call("close", store[self], None, a)
             IN IF a.raised
                THEN Outcome(None, "Exception", <<c>>, <<>>, en, lo)
                ELSE Outcome(None, NoRaise, <<c>>, <<>>, en, lo)
\* (mutant) the store is made once and shared by every instance
NewStoreShared(self) == "store"

\* ------------------------------------------------------------ the behaviour
\* CacheResponsesPlugin.__init__: each instance gets a store of its own.
NewStore(self) == "store" \o self

NoCall ==
    [conn |-> "none", hook |-> "none", arg |-> None, ret |-> None,
     raised |-> NoRaise, calls |-> <<>>, queued |-> <<>>, mode |-> "ok"]

\* The state after the classes are loaded and the instances constructed.
Constructed ==
    /\ enabled = TRUE
    /\ local = FALSE
    /\ __enabled = [c \in Conns |-> <<>>]
    /\ __local = [c \in Conns |-> <<>>]
    /\ store = [c \in Conns |-> NewStore(c)]
    /\ client = [c \in Conns |-> <<>>]
    /\ cached \in SUBSET Paths
    /\ recording = [h \in {NewStore(c) : c \in Conns} |-> NoneBytes]
    /\ storeMode \in {"ok", "rewrite"}
    /\ storeLog = <<>>
    /\ hostRequest = [c \in Conns |-> None]
    /\ nreq = [c \in Conns |-> 0]
    /\ connected = [c \in Conns |-> FALSE]
    /\ pending = [c \in Conns |-> <<>>]
    /\ nchunk = [c \in Conns |-> 0]
    /\ closed = [c \in Conns |-> FALSE]
    /\ ncalls = [c \in Conns |-> 0]
    /\ last = NoCall

Init == Constructed /\ budget = [c \in Conns |-> IF c = "A" THEN MaxCalls ELSE 0]

\* multiprocessing.Event.set() / .clear() on the two class attributes
enabled_set == enabled' = TRUE /\ UNCHANGED <<local, __enabled, __local, store,
    client, cached, recording, storeMode, storeLog, hostRequest, nreq,
    connected, pending, nchunk, closed, ncalls, budget, last>>

enabled_clear == enabled' = FALSE /\ UNCHANGED <<local, __enabled, __local, store,
    client, cached, recording, storeMode, storeLog, hostRequest, nreq,
    connected, pending, nchunk, closed, ncalls, budget, last>>

\* (mutant) both descriptors share one Event
local_set_shared_event == local' = TRUE /\ enabled' = TRUE /\ UNCHANGED <<__enabled,
    __local, store, client, cached, recording, storeMode, storeLog, hostRequest,
    nreq, connected, pending, nchunk, closed, ncalls, budget, last>>

local_set == local' = TRUE /\ UNCHANGED <<enabled, __enabled, __local, store,
    client, cached, recording, storeMode, storeLog, hostRequest, nreq,
    connected, pending, nchunk, closed, ncalls, budget, last>>

local_clear == local' = FALSE /\ UNCHANGED <<enabled, __enabled, __local, store,
    client, cached, recording, storeMode, storeLog, hostRequest, nreq,
    connected, pending, nchunk, closed, ncalls, budget, last>>

\* The store's environment changes the store's condition: a store in working
\* order starts to fail.
StoreCondition(m) ==
    /\ storeMode \in {"ok", "rewrite"}
    /\ storeMode' = m
    /\ UNCHANGED <<enabled, local, __enabled, __local, store, client, cached,
                   recording, storeLog, hostRequest, nreq, connected, pending,
                   nchunk, closed, ncalls, budget, last>>

\* What every hook invocation leaves behind: the instance's fields, the
\* client's queue, the store's state and the record of the invocation.
Invoked(self, hook, arg, o) ==
    LET st == StoreAfter([cached |-> cached, recording |-> recording], o.calls)
    IN  /\ __enabled' = [__enabled EXCEPT ![self] = o.enabled]
        /\ __local' = [__local EXCEPT ![self] = o.local]
        /\ client' = [client EXCEPT ![self] = @ \o o.queued]
        /\ cached' = st.cached
        /\ recording' = st.recording
        /\ storeLog' = storeLog \o
              [i \in 1..Len(o.calls) |->
                  [op |-> o.calls[i].op, store |-> o.calls[i].store,
                   arg |-> o.calls[i].arg]]
        /\ ncalls' = [ncalls EXCEPT ![self] = @ + 1]
        /\ last' = [conn |-> self, hook |-> hook, arg |-> arg, ret |-> o.ret,
                    raised |-> o.raised, calls |-> o.calls, queued |-> o.queued,
                    mode |-> storeMode]
        /\ UNCHANGED <<enabled, local, store, storeMode, budget>>

\* The host received a request and is about to connect upstream.
BeforeUpstreamConnection(self, method, path) ==
    /\ ncalls[self] < budget[self]
    /\ ~closed[self]
    /\ hostRequest[self] = None
    /\ LET request == Request(method, path, nreq[self] + 1)
           o == before_upstream_connection(self, request)
       IN  /\ Invoked(self, "before_upstream_connection", request, o)
           /\ hostRequest' = [hostRequest EXCEPT ![self] = request]
           /\ nreq' = [nreq EXCEPT ![self] = @ + 1]
           /\ connected' = [connected EXCEPT ![self] = @ \/ o.ret # None]
    /\ UNCHANGED <<pending, nchunk, closed>>

\* The host hands over the request it connected for, or the next request the
\* client sent on the open connection.
HandleClientRequest(self, method, path) ==
    /\ ncalls[self] < budget[self]
    /\ ~closed[self]
    /\ __enabled[self] # <<>>
    /\ hostRequest[self] # None =>
          method = hostRequest[self].method /\ path = hostRequest[self].path
    /\ LET fresh == hostRequest[self] = None
           request == IF fresh THEN Request(method, path, nreq[self] + 1)
                      ELSE hostRequest[self]
           o == handle_client_request(self, request)
       IN  /\ Invoked(self, "handle_client_request", request, o)
           /\ hostRequest' = [hostRequest EXCEPT ![self] = None]
           /\ nreq' = [nreq EXCEPT ![self] = IF fresh THEN @ + 1 ELSE @]
           /\ pending' = [pending EXCEPT ![self] =
                 IF o.ret # None /\ connected[self] /\ request.method # CONNECT
                 THEN Append(@, request.id) ELSE @]
    /\ UNCHANGED <<connected, nchunk, closed>>

\* The host read the next chunk of the oldest pending response; `fin` says
\* that the response ends with it.
HandleUpstreamChunk(self, fin) ==
    /\ ncalls[self] < budget[self]
    /\ ~closed[self]
    /\ __enabled[self] # <<>>
    /\ hostRequest[self] = None
    /\ connected[self]
    /\ pending[self] # <<>>
    /\ nchunk[self] < MaxChunks
    /\ LET chunk == Chunk(Head(pending[self]), nchunk[self] + 1)
           o == handle_upstream_chunk(self, chunk)
           done == fin \/ nchunk[self] + 1 = MaxChunks
       IN  /\ Invoked(self, "handle_upstream_chunk", chunk, o)
           /\ pending' = [pending EXCEPT ![self] = IF done THEN Tail(@) ELSE @]
           /\ nchunk' = [nchunk EXCEPT ![self] = IF done THEN 0 ELSE @ + 1]
    /\ UNCHANGED <<hostRequest, nreq, connected, closed>>

\* The upstream leg of the connection ended.
OnUpstreamConnectionClose(self) ==
    /\ ncalls[self] < budget[self]
    /\ ~closed[self]
    /\ __enabled[self] # <<>>
    /\ hostRequest[self] = None
    /\ Invoked(self, "on_upstream_connection_close", None,
               on_upstream_connection_close(self))
    /\ closed' = [closed EXCEPT ![self] = TRUE]
    /\ UNCHANGED <<hostRequest, nreq, connected, pending, nchunk>>

\* What a client asks for: a tunnel to the origin, or one of its resources.
Asked == {<<CONNECT, "uni.corn:443">>} \cup {<<GET, p>> : p \in Paths}

Hooks(self) ==
    \/ \E a \in Asked : BeforeUpstreamConnection(self, a[1], a[2])
    \/ \E a \in Asked : HandleClientRequest(self, a[1], a[2])
    \/ \E fin \in BOOLEAN : HandleUpstreamChunk(self, fin)
    \/ OnUpstreamConnectionClose(self)

Flags == enabled_set \/ enabled_clear \/ local_set \/ local_clear

\* One connection, its hooks called in the order the host calls them, while
\* the flags and the store's condition change under it.
Next ==
    \/ Flags
    \/ \E m \in StoreModes \ {"ok", "rewrite"} : StoreCondition(m)
    \/ Hooks("A")

Spec == Init /\ [][Next]_vars

\* One connection on which the flags stay as the classes define them, long
\* enough for a response of several chunks to be recorded and closed.
InitStream ==
    Constructed /\ budget = [c \in Conns |-> IF c = "A" THEN MaxStreamCalls ELSE 0]

NextStream ==
    \/ \E m \in StoreModes \ {"ok", "rewrite"} : StoreCondition(m)
    \/ Hooks("A")

SpecStream == InitStream /\ [][NextStream]_vars

\* A caller that does not keep the host's order: a hook of the request,
\* chunk or close phase is invoked on an instance whose
\* before_upstream_connection was never called.
EarlyHandleClientRequest(self, method, path) ==
    /\ ncalls[self] < budget[self]
    /\ ~closed[self]
    /\ __enabled[self] = <<>>
    /\ LET request == Request(method, path, nreq[self] + 1)
       IN  Invoked(self, "handle_client_request", request,
                   handle_client_request(self, request))
    /\ UNCHANGED <<hostRequest, nreq, connected, pending, nchunk, closed>>

EarlyHandleUpstreamChunk(self) ==
    /\ ncalls[self] < budget[self]
    /\ ~closed[self]
    /\ __enabled[self] = <<>>
    /\ LET chunk == Chunk(nreq[self] + 1, 1)
       IN  Invoked(self, "handle_upstream_chunk", chunk,
                   handle_upstream_chunk(self, chunk))
    /\ UNCHANGED <<hostRequest, nreq, connected, pending, nchunk, closed>>

EarlyOnUpstreamConnectionClose(self) ==
    /\ ncalls[self] < budget[self]
    /\ ~closed[self]
    /\ __enabled[self] = <<>>
    /\ Invoked(self, "on_upstream_connection_close", None,
               on_upstream_connection_close(self))
    /\ UNCHANGED <<hostRequest, nreq, connected, pending, nchunk, closed>>

EarlyHooks(self) ==
    \/ \E a \in Asked : EarlyHandleClientRequest(self, a[1], a[2])
    \/ EarlyHandleUpstreamChunk(self)
    \/ EarlyOnUpstreamConnectionClose(self)

NextAnyOrder == Next \/ EarlyHooks("A")

SpecAnyOrder == Init /\ [][NextAnyOrder]_vars
\* Two connections of one process, each with its plugin instance, their hooks
\* interleaved as the host's event loop happens to run them, on a store in
\* working order that holds one of the two resources.
InitPeers ==
    /\ Constructed
    /\ cached = {"/get"}
    /\ budget = [c \in Conns |-> IF c = "A" THEN MaxPeerCalls + 2 ELSE MaxPeerCalls]

NextPeers == \E c \in Conns : Hooks(c)

SpecPeers == InitPeers /\ [][NextPeers]_vars

\* ---------------------------------------------------------------- the claims
\* The last invocation was of `hook`, on a connection whose snapshot says
\* enabled.
Ran(hook) == last.hook = hook
RanEnabled(hook) == last.hook = hook /\ __enabled[last.conn] = <<TRUE>>

\* The store, while the last hook ran, answered every call it was made.
Working == last.mode \in {"ok", "rewrite"}
LookupRaises == last.mode \in {"lookup_fails", "all_fail"}

\* The last invocation made no store call and queued nothing.
Silent == last.calls = <<>> /\ last.queued = <<>>
Ops == [i \in 1..Len(last.calls) |-> last.calls[i].op]

\* C1: on a connection whose enabled snapshot is false every hook is inert,
\* whatever the store's condition: it raises nothing, returns its input
\* (nothing, for on_upstream_connection_close), calls no store operation and
\* queues nothing to the client.
C1_DisabledIsInert ==
    (last.hook # "none" /\ __enabled[last.conn] = <<FALSE>>) =>
        /\ last.raised = NoRaise
        /\ Silent
        /\ last.ret = last.arg

C1_Witness ==
    /\ Ran("handle_upstream_chunk")
    /\ __enabled[last.conn] = <<FALSE>>
    /\ last.mode = "all_fail"
    /\ last.ret = last.arg
    /\ storeLog = <<>>

\* C2: before_upstream_connection, enabled, for a request that is not a
\* CONNECT and that is_cached reports as cached, returns None whatever the
\* local snapshot is; the host opens no upstream connection for it.
C2_HitSuppressesConnect ==
    (/\ RanEnabled("before_upstream_connection")
     /\ last.arg.method # CONNECT
     /\ ~LookupRaises
     /\ last.arg.path \in cached) =>
        /\ last.ret = None
        /\ last.raised = NoRaise
        /\ last.arg.id = 1 => ~connected[last.conn]

C2_Witness ==
    /\ RanEnabled("before_upstream_connection")
    /\ __local[last.conn] = <<FALSE>>
    /\ last.arg.method = GET
    /\ Ops = <<"is_cached">>
    /\ last.calls[1].out = "True"
    /\ last.ret = None

\* C3: handle_client_request, enabled with the local snapshot true, for a
\* request that is not a CONNECT and for which cache_request returns a
\* request-kind message, queues exactly one response to the client, the 502,
\* and returns None.
C3_LocalMissGets502 ==
    (/\ RanEnabled("handle_client_request")
     /\ __local[last.conn] = <<TRUE>>
     /\ last.arg.method # CONNECT
     /\ Working
     /\ last.arg.path \notin cached) =>
        /\ Len(last.queued) = 1
        /\ last.queued[1].code = BAD_GATEWAY
        /\ last.ret = None
        /\ last.raised = NoRaise
        /\ Len(client[last.conn]) >= 1
        /\ client[last.conn][Len(client[last.conn])] = last.queued[1]

C3_Witness ==
    /\ RanEnabled("handle_client_request")
    /\ __local[last.conn] = <<TRUE>>
    /\ Ops = <<"cache_request">>
    /\ last.calls[1].out = REQUEST_PARSER
    /\ last.queued = <<Response502>>
    /\ last.ret = None

\* C4: while the local snapshot is true, no hook called for a request that
\* is not a CONNECT and has no cache entry hands the request back to the
\* host: before_upstream_connection and handle_client_request return None.
C4_LocalMissNeverReturnsRequest ==
    (/\ last.hook \in {"before_upstream_connection", "handle_client_request"}
     /\ __enabled[last.conn] = <<TRUE>>
     /\ __local[last.conn] = <<TRUE>>
     /\ last.arg.method # CONNECT
     /\ last.arg.path \notin cached) =>
        last.ret = None

\* The store operations invoked on the store `h` for the request `id`.
LoggedFor(h, id, op) ==
    {i \in 1..Len(storeLog) :
        /\ storeLog[i].store = h
        /\ storeLog[i].op = op
        /\ storeLog[i].arg.id = id}

\* C5: handle_client_request, enabled with the local snapshot false, for a
\* request that is not a CONNECT and has no cache entry, calls cache_request
\* exactly once, queues nothing to the client and returns a request to
\* forward; over the whole connection cache_request is invoked at most once
\* for a request, and before every cache_response_chunk made for its
\* response.
C5_MissIsRecordedThenForwarded ==
    /\ (/\ RanEnabled("handle_client_request")
        /\ __local[last.conn] = <<FALSE>>
        /\ last.arg.method # CONNECT
        /\ last.arg.path \notin cached) =>
            /\ last.raised = NoRaise
            /\ last.queued = <<>>
            /\ last.ret # None
            /\ Ops[1] = "cache_request"
            /\ Cardinality({i \in 1..Len(Ops) : Ops[i] = "cache_request"}) = 1
            /\ Cardinality(LoggedFor(store[last.conn], last.arg.id,
                                     "cache_request")) = 1
    /\ \A i \in 1..Len(storeLog) :
          storeLog[i].op = "cache_request" =>
            /\ Cardinality(LoggedFor(storeLog[i].store, storeLog[i].arg.id,
                                     "cache_request")) = 1
            /\ \A j \in LoggedFor(storeLog[i].store, storeLog[i].arg.id,
                                  "cache_response_chunk") : i < j

C5_Witness ==
    /\ RanEnabled("handle_upstream_chunk")
    /\ __local[last.conn] = <<FALSE>>
    /\ Len(storeLog) = 3
    /\ storeLog[1].op = "is_cached"
    /\ storeLog[2].op = "cache_request"
    /\ storeLog[3].op = "cache_response_chunk"
    /\ storeLog[3].arg.id = storeLog[2].arg.id
    /\ recording[store[last.conn]] = storeLog[2].arg.path
    /\ client[last.conn] = <<>>

\* C6: handle_client_request, enabled, whatever the local snapshot, for a
\* request that is not a CONNECT and for which cache_request returns the
\* response-kind message of the cache entry, makes that one store call,
\* queues exactly one response with the status (0 when the message has none),
\* reason, headers and body of the message, and returns None.
C6_HitIsReplayed ==
    (/\ RanEnabled("handle_client_request")
     /\ last.arg.method # CONNECT
     /\ Working
     /\ last.arg.path \in cached) =>
        LET msg == Stored(last.arg.path)
            names == {msg.headers[l][1] : l \in DOMAIN msg.headers}
        IN  /\ Ops = <<"cache_request">>
            /\ last.raised = NoRaise
            /\ last.ret = None
            /\ Len(last.queued) = 1
            /\ msg.code = NoneBytes => last.queued[1].code = 0
            /\ msg.code = "200" => last.queued[1].code = 200
            /\ last.queued[1].reason = msg.reason
            /\ last.queued[1].body = msg.body
            /\ DOMAIN last.queued[1].headers = names
            /\ \A l \in DOMAIN msg.headers :
                  last.queued[1].headers[msg.headers[l][1]] = msg.headers[l][2]

C6_Witness ==
    /\ RanEnabled("handle_client_request")
    /\ __local[last.conn] = <<TRUE>>
    /\ Ops = <<"cache_request">>
    /\ last.calls[1].out = RESPONSE_PARSER
    /\ last.calls[1].val.code = NoneBytes
    /\ Len(last.queued) = 1
    /\ last.queued[1].code = 0
    /\ last.queued[1].body = "Response 1 From Cache"
    /\ last.ret = None

\* C7: handle_client_request, called with the snapshot set, lets no exception
\* out; when cache_request raises or returns a message of an unknown kind,
\* and also when is_cached raises after that, the hook looks at is_cached
\* once and returns the request it was given.
C7_ClientRequestNeverRaises ==
    (Ran("handle_client_request") /\ __enabled[last.conn] # <<>>) =>
        /\ last.raised = NoRaise
        /\ (/\ __enabled[last.conn] = <<TRUE>>
            /\ last.arg.method # CONNECT
            /\ last.mode \in {"request_fails", "bad_type", "all_fail"}) =>
                /\ last.ret = last.arg
                /\ Ops = <<"cache_request", "is_cached">>

C7_Witness ==
    /\ RanEnabled("handle_client_request")
    /\ Ops = <<"cache_request", "is_cached">>
    /\ last.calls[1].out = "raise"
    /\ last.calls[2].out = "raise"
    /\ last.raised = NoRaise
    /\ last.ret = last.arg

\* C8: before_upstream_connection, enabled, for a request that is not a
\* CONNECT, when is_cached raises: no exception leaves the hook and it
\* returns the request, whatever the local snapshot is.
C8_LookupFaultFailsOpen ==
    (/\ RanEnabled("before_upstream_connection")
     /\ last.arg.method # CONNECT
     /\ LookupRaises) =>
        /\ last.raised = NoRaise
        /\ last.ret = last.arg

C8_Witness ==
    /\ RanEnabled("before_upstream_connection")
    /\ __local[last.conn] = <<TRUE>>
    /\ Ops = <<"is_cached">>
    /\ last.calls[1].out = "raise"
    /\ last.ret = last.arg

\* C9: once the snapshot of a connection is set, no step changes it (not
\* even a later before_upstream_connection, after the flags were changed).
C9_SnapshotCapturedOnce ==
    [][\A c \in Conns :
          __enabled[c] # <<>> =>
              /\ __enabled'[c] = __enabled[c]
              /\ __local'[c] = __local[c]]_vars

\* C10: for a CONNECT on an enabled connection the two request hooks call no
\* store operation and queue nothing; before_upstream_connection returns the
\* request when the local snapshot is false and None when it is true,
\* handle_client_request returns the request in both cases.
C10_ConnectBypassesStore ==
    (/\ last.hook \in {"before_upstream_connection", "handle_client_request"}
     /\ __enabled[last.conn] = <<TRUE>>
     /\ last.arg.method = CONNECT) =>
        /\ last.raised = NoRaise
        /\ Silent
        /\ Ran("before_upstream_connection") =>
              last.ret = IF __local[last.conn] = <<TRUE>> THEN None ELSE last.arg
        /\ Ran("handle_client_request") => last.ret = last.arg

C10_Witness ==
    /\ RanEnabled("handle_client_request")
    /\ __local[last.conn] = <<TRUE>>
    /\ last.arg.method = CONNECT
    /\ last.arg.id = 1
    /\ ncalls[last.conn] = 2
    /\ ~connected[last.conn]
    /\ last.ret = last.arg
    /\ storeLog = <<>>

\* The last invocation was handle_client_request, enabled, for a request
\* that is not a CONNECT.
Resolved == RanEnabled("handle_client_request") /\ last.arg.method # CONNECT

\* The store, while the last hook ran, answered cache_request as it should.
Resolves == last.mode \in {"ok", "rewrite", "lookup_fails"}

\* ... and it had no entry / had an entry for the request.
Miss == Resolved /\ Resolves /\ last.arg.path \notin cached
Hit == Resolved /\ Resolves /\ last.arg.path \in cached
LocalSnapshot == __local[last.conn] = <<TRUE>>

\* C11 (as claimed): the response queued on a miss while local has status
\* 502, reason "Bad gateway", a Connection: close header and the body
\* "Resource has not been cached yet. Please allow upstream.".
C11_Body_AsClaimed ==
    (Miss /\ LocalSnapshot) =>
        /\ Len(last.queued) = 1
        /\ last.queued[1].code = 502
        /\ last.queued[1].reason = "Bad gateway"
        /\ "Connection" \in DOMAIN last.queued[1].headers
        /\ last.queued[1].headers["Connection"] = "close"
        /\ last.queued[1].body =
              "Resource has not been cached yet. Please allow upstream."

\* C11 (amended): the response queued on a miss while local has status 502,
\* reason "Bad gateway", a Connection: close header and the body
\* "Ressource has not been cached yet. Please allow upstream." (as the code
\* and its test spell it).
C11_Body ==
    (Miss /\ LocalSnapshot) =>
        /\ Len(last.queued) = 1
        /\ last.queued[1].code = 502
        /\ last.queued[1].reason = "Bad gateway"
        /\ "Connection" \in DOMAIN last.queued[1].headers
        /\ last.queued[1].headers["Connection"] = "close"
        /\ last.queued[1].body =
              "Ressource has not been cached yet. Please allow upstream."

C11_Witness ==
    /\ Miss
    /\ LocalSnapshot
    /\ Len(last.queued) = 1
    /\ last.queued[1].code = 502
    /\ last.queued[1].body =
          "Ressource has not been cached yet. Please allow upstream."

\* C12 (as claimed): every response queued to a client carries a Server
\* header, the replay of a cached message included.
C12_ServerHeader_AsClaimed ==
    \A c \in Conns : \A i \in 1..Len(client[c]) :
        "Server" \in DOMAIN client[c][i].headers

\* C12 (amended): only handle_client_request queues responses; the 502 and
\* the 500 carry the fixed Server header and Connection: close; the replay
\* of a cached message carries the headers of that message and no other, so
\* a Server header only when the message has one.
C12_ServerHeader ==
    /\ ~Ran("handle_client_request") => last.queued = <<>>
    /\ \A i \in 1..Len(last.queued) :
          LET r == last.queued[i]
              msg == Stored(last.arg.path)
          IN  IF Hit
              THEN /\ DOMAIN r.headers =
                        {msg.headers[l][1] : l \in DOMAIN msg.headers}
                   /\ "Server" \in DOMAIN r.headers <=>
                        "server" \in DOMAIN msg.headers
              ELSE /\ r.code \in {502, 500}
                   /\ DOMAIN r.headers = {"Server", "Connection"}
                   /\ r.headers["Server"] = PROXY_AGENT_HEADER_VALUE
                   /\ r.headers["Connection"] = "close"

C12_Witness ==
    /\ Hit
    /\ Len(last.queued) = 1
    /\ "Server" \notin DOMAIN last.queued[1].headers
    /\ "Content-Type" \in DOMAIN last.queued[1].headers
    /\ last.queued[1].code = 0

\* The chunks, and the closes, the store `h` was handed so far, in the order
\* it was handed them.
ChunksSeen(h) ==
    SelectSeq(storeLog, LAMBDA e : e.store = h /\ e.op = "cache_response_chunk")
ClosesSeen(h) ==
    SelectSeq(storeLog, LAMBDA e : e.store = h /\ e.op = "close")

\* C13: on an enabled connection every handle_upstream_chunk call hands its
\* chunk to cache_response_chunk exactly once and returns what the store
\* returned for it; the store sees the chunks of a response in the order
\* they arrived (chunk n right after chunk n-1 of the same response, the
\* responses in request order), no close before the connection closes, and
\* then exactly one close, after every chunk.
C13_ChunksInOrderThenClose ==
    /\ (RanEnabled("handle_upstream_chunk") /\ last.mode # "all_fail") =>
          /\ last.raised = NoRaise
          /\ Ops = <<"cache_response_chunk">>
          /\ last.calls[1].arg = last.arg
          /\ last.ret = last.calls[1].val
    /\ \A c \in Conns :
          LET seen == ChunksSeen(store[c])
          IN  /\ \A i \in 1..Len(seen) :
                    IF seen[i].arg.n = 1
                    THEN i > 1 => seen[i-1].arg.id < seen[i].arg.id
                    ELSE /\ i > 1
                         /\ seen[i-1].arg.id = seen[i].arg.id
                         /\ seen[i-1].arg.n = seen[i].arg.n - 1
              /\ nchunk[c] > 0 =>
                    /\ seen # <<>>
                    /\ seen[Len(seen)].arg.id = Head(pending[c])
                    /\ seen[Len(seen)].arg.n = nchunk[c]
              /\ ~closed[c] => ClosesSeen(store[c]) = <<>>
              /\ closed[c] =>
                    /\ Len(ClosesSeen(store[c])) = 1
                    /\ storeLog[Len(storeLog)].op = "close"

C13_Witness ==
    /\ RanEnabled("on_upstream_connection_close")
    /\ Len(ChunksSeen(store[last.conn])) = 2
    /\ ChunksSeen(store[last.conn])[2].arg.n = 2
    /\ Ops = <<"close">>
    /\ last.mode = "rewrite"

\* What the store of connection `c` was asked so far, and the cache_request
\* calls among it.
AskedOf(c) == SelectSeq(storeLog, LAMBDA e : e.store = store[c])
RequestsOf(c) == SelectSeq(AskedOf(c), LAMBDA e : e.op = "cache_request")

\* The connection `c` took its snapshot once, enabled, and since then every
\* request of the client went through cache_request and had a cache entry:
\* either the connection opened with a CONNECT (request 1, no store call) and
\* requests 2..nreq followed, or with request 1 itself looked up and then
\* handled, followed by requests 2..nreq.
Pipelined(c) ==
    LET log == AskedOf(c)
        reqs == RequestsOf(c)
    IN  /\ __enabled[c] = <<TRUE>>
        /\ ~closed[c]
        /\ hostRequest[c] = None
        /\ reqs # <<>>
        /\ \/ log = reqs /\ reqs[1].arg.id = 2
           \/ /\ log = <<log[1]>> \o reqs
              /\ log[1].op = "is_cached"
              /\ log[1].arg.id = 1
              /\ reqs[1].arg.id = 1
        /\ \A i \in 1..Len(reqs) :
              /\ reqs[i].arg.id = reqs[1].arg.id + i - 1
              /\ reqs[i].arg.path \in cached
        /\ reqs[Len(reqs)].arg.id = nreq[c]

\* C14: when every request sent on a connection after its single
\* before_upstream_connection call has a cache entry, the client was queued
\* exactly the cached responses of these requests, in request order, nothing
\* was forwarded upstream and the handle_client_request call returned None,
\* whatever the local snapshot.
C14_PipelinedReplay ==
    \A c \in Conns :
        Pipelined(c) =>
            /\ client[c] = [i \in 1..Len(RequestsOf(c)) |->
                               CachedResponse(Stored(RequestsOf(c)[i].arg.path))]
            /\ pending[c] = <<>>
            /\ (last.conn = c /\ Ran("handle_client_request")
                    /\ last.arg.method # CONNECT) =>
                  last.ret = None /\ last.raised = NoRaise

C14_Witness ==
    /\ Pipelined("A")
    /\ Ran("handle_client_request")
    /\ __local["A"] = <<TRUE>>
    /\ Len(client["A"]) = 2
    /\ client["A"][1] # client["A"][2]
    /\ last.ret = None

\* The same replay with the local snapshot false.
C14_WitnessUpstreamAllowed ==
    /\ Pipelined("A")
    /\ Ran("handle_client_request")
    /\ __local["A"] = <<FALSE>>
    /\ Len(client["A"]) = 2
    /\ client["A"][1] # client["A"][2]

\* C15: the flags start as enabled set and local clear; a step that changes
\* one flag leaves the other as it was, no hook changes either, and a
\* before_upstream_connection call leaves in the connection's snapshot the
\* values the two flags had when it was made.
C15_FlagsIndependent ==
    /\ enabled = TRUE /\ local = FALSE
    /\ [][/\ enabled' # enabled => local' = local
          /\ local' # local => enabled' = enabled
          /\ ncalls' # ncalls => enabled' = enabled /\ local' = local
          /\ (ncalls' # ncalls /\ last'.hook = "before_upstream_connection") =>
                /\ __enabled'[last'.conn] = <<enabled>>
                /\ __local'[last'.conn] = <<local>>]_vars

C15_Witness ==
    /\ Ran("before_upstream_connection")
    /\ ~enabled /\ local
    /\ __enabled[last.conn] = <<FALSE>>
    /\ __local[last.conn] = <<TRUE>>

\* The last invocation was handle_client_request, enabled, for a request
\* other than CONNECT, and cache_request raised or returned a message that is
\* neither a request nor a response.
FailedOver == Resolved /\ ~Resolves

\* C16: when cache_request raises or returns an unrecognized kind,
\* handle_client_request calls is_cached once more and returns the original
\* request without raising; when is_cached reports a hit exactly one 500
\* "Internal server error" is queued to the client in that same call, and
\* when it reports a miss or raises nothing is queued.
C16_FailOpen ==
    FailedOver =>
        /\ Ops = <<"cache_request", "is_cached">>
        /\ last.calls[2].arg = last.arg
        /\ last.raised = NoRaise
        /\ last.ret = last.arg
        /\ IF last.calls[2].out = "True"
           THEN /\ Len(last.queued) = 1
                /\ last.queued[1].code = INTERNAL_SERVER_ERROR
                /\ last.queued[1].reason = "Internal server error"
           ELSE last.queued = <<>>
        /\ last.calls[2].out = "True" <=>
              (last.mode # "all_fail" /\ last.arg.path \in cached)

C16_Witness ==
    /\ FailedOver
    /\ Len(last.queued) = 1
    /\ last.queued[1].code = INTERNAL_SERVER_ERROR
    /\ last.ret = last.arg
    /\ pending[last.conn] = <<last.arg.id>>
    /\ client[last.conn] = last.queued

\* C17: on a connection whose local snapshot is true, handle_client_request
\* returns None for every request other than CONNECT, in every outcome of
\* cache_request.
C17_LocalNeverForwards ==
    (Resolved /\ LocalSnapshot) => last.ret = None

\* The last invocation was made on an instance that has no snapshot.
Unset == last.conn \in Conns /\ __enabled[last.conn] = <<>>

\* C18: handle_client_request, handle_upstream_chunk and
\* on_upstream_connection_close, invoked on a connection on which
\* before_upstream_connection was never called, fail with an assertion error,
\* whatever the flags and the store's condition, having invoked no store
\* operation and queued nothing to the client.
C18_UnsetSnapshotAsserts ==
    Unset =>
        /\ last.hook \in {"handle_client_request", "handle_upstream_chunk",
                          "on_upstream_connection_close"}
        /\ last.raised = "AssertionError"
        /\ last.ret = None
        /\ Silent
        /\ storeLog = <<>>
        /\ client[last.conn] = <<>>

C18_Witness ==
    /\ Unset
    /\ Ran("on_upstream_connection_close")
    /\ last.raised = "AssertionError"
    /\ ncalls[last.conn] = 3
    /\ ~enabled
    /\ storeMode = "all_fail"

\* C19: handle_client_request, handle_upstream_chunk and
\* on_upstream_connection_close leave the connection's snapshot as
\* before_upstream_connection set it, and invoke the store exactly when that
\* snapshot says enabled (and the request is not a CONNECT), whatever the
\* values the two flags have when the hook runs: a connection snapshotted
\* enabled calls close with enabled cleared, and one snapshotted disabled
\* calls nothing with enabled set.
C19_LaterHooksFollowSnapshot ==
    [][(ncalls' # ncalls /\ last'.hook # "before_upstream_connection") =>
          LET c == last'.conn
              asks == __enabled[c] = <<TRUE>>
                        /\ ~(last'.hook = "handle_client_request"
                               /\ last'.arg.method = CONNECT)
          IN  /\ __enabled'[c] = __enabled[c]
              /\ __local'[c] = __local[c]
              /\ last'.calls # <<>> <=> asks
              /\ (asks /\ last'.hook = "on_upstream_connection_close") =>
                    /\ Len(last'.calls) = 1
                    /\ last'.calls[1].op = "close"
              /\ (asks /\ last'.hook = "handle_upstream_chunk") =>
                    /\ Len(last'.calls) = 1
                    /\ last'.calls[1].op = "cache_response_chunk"
              /\ (asks /\ last'.hook = "handle_client_request") =>
                    last'.calls[1].op = "cache_request"
              /\ (last'.hook = "handle_client_request" /\ __enabled[c] = <<TRUE>>
                     /\ last'.queued # <<>> /\ last'.queued[1].code = BAD_GATEWAY)
                    => __local[c] = <<TRUE>>]_vars

C19_Witness ==
    /\ RanEnabled("on_upstream_connection_close")
    /\ Ops = <<"close">>
    /\ ~enabled
    /\ local
    /\ __local[last.conn] = <<FALSE>>
    /\ storeLog[1].op = "cache_request"

\* C20: an exception raised by cache_response_chunk or by close leaves
\* handle_upstream_chunk or on_upstream_connection_close as it is (the hook
\* raises to the host, returns nothing and queues nothing), while
\* before_upstream_connection and handle_client_request never raise on an
\* enabled connection, whatever the store raises.
C20_StreamFaultsPropagate ==
    /\ (\/ RanEnabled("handle_upstream_chunk")
        \/ RanEnabled("on_upstream_connection_close")) =>
          /\ Len(last.calls) = 1
          /\ last.calls[1].out = "raise" <=> last.raised = "Exception"
          /\ last.calls[1].out # "raise" <=> last.raised = NoRaise
          /\ last.mode = "all_fail" => last.calls[1].out = "raise"
          /\ last.raised = "Exception" => last.ret = None /\ last.queued = <<>>
    /\ (\/ RanEnabled("before_upstream_connection")
        \/ RanEnabled("handle_client_request")) =>
          last.raised = NoRaise

C20_Witness ==
    /\ RanEnabled("on_upstream_connection_close")
    /\ last.raised = "Exception"
    /\ Ops = <<"close">>
    /\ \E i \in 1..Len(storeLog) : storeLog[i].op = "cache_response_chunk"

\* C21: on an enabled connection every on_upstream_connection_close call
\* invokes close on the connection's store exactly once, with or without a
\* recording started there: the store was asked nothing before (a CONNECT
\* only), or replayed a cached response, or failed the cache_request.
C21_CloseAlwaysForwarded ==
    RanEnabled("on_upstream_connection_close") =>
        /\ Ops = <<"close">>
        /\ last.calls[1].store = store[last.conn]
        /\ Len(ClosesSeen(store[last.conn])) = 1
        /\ storeLog[Len(storeLog)].op = "close"

\* after a CONNECT-only exchange
C21_Witness ==
    /\ RanEnabled("on_upstream_connection_close")
    /\ nreq[last.conn] = 1
    /\ ncalls[last.conn] = 3
    /\ AskedOf(last.conn) = <<[op |-> "close", store |-> store[last.conn],
                               arg |-> None]>>

\* after a request served from the cache
C21_WitnessServedFromCache ==
    /\ RanEnabled("on_upstream_connection_close")
    /\ Len(client[last.conn]) = 1
    /\ client[last.conn][1].code # INTERNAL_SERVER_ERROR
    /\ client[last.conn][1].code # BAD_GATEWAY
    /\ Ops = <<"close">>

\* after a request whose cache_request raised
C21_WitnessAfterFault ==
    /\ RanEnabled("on_upstream_connection_close")
    /\ Len(AskedOf(last.conn)) = 3
    /\ AskedOf(last.conn)[1].op = "cache_request"
    /\ AskedOf(last.conn)[2].op = "is_cached"
    /\ Ops = <<"close">>

\* The last handle_client_request call got a request-kind message from
\* cache_request, on a connection whose local snapshot is false.
RecordedForUpstream ==
    /\ Resolved
    /\ __local[last.conn] = <<FALSE>>
    /\ last.calls # <<>>
    /\ last.calls[1].out = REQUEST_PARSER

\* C22 (as claimed): with the local snapshot false, when cache_request
\* returns a request-kind message, handle_client_request returns the request
\* it received, unchanged.
C22_ReturnsReceived_AsClaimed ==
    RecordedForUpstream => last.ret = last.arg

\* C22: with the local snapshot false, when cache_request returns a
\* request-kind message, handle_client_request returns that message, the
\* one the store returned, and queues nothing; it is the request the hook
\* received exactly when the store returned it unchanged.
C22_ReturnsStoreMessage ==
    RecordedForUpstream =>
        /\ last.raised = NoRaise
        /\ last.queued = <<>>
        /\ Ops = <<"cache_request">>
        /\ last.calls[1].arg = last.arg
        /\ last.ret = last.calls[1].val
        /\ last.ret = last.arg <=> last.mode # "rewrite"

C22_Witness ==
    /\ RecordedForUpstream
    /\ last.ret # last.arg
    /\ last.ret = [last.arg EXCEPT !.by = "store"]
    /\ pending[last.conn] = <<last.arg.id>>

\* C23: one before_upstream_connection call invokes is_cached at most once
\* and nothing else; one handle_client_request call invokes cache_request at
\* most once, first, and is_cached at most once, only after a cache_request
\* that raised or returned an unrecognized kind; neither invokes
\* cache_response_chunk or close, whatever the store answers.
C23_NoRetry ==
    /\ Ran("before_upstream_connection") =>
          /\ Ops \in {<<>>, <<"is_cached">>}
          /\ \A i \in 1..Len(last.calls) : last.calls[i].arg = last.arg
    /\ Ran("handle_client_request") =>
          /\ Ops \in {<<>>, <<"cache_request">>, <<"cache_request", "is_cached">>}
          /\ Len(last.calls) = 2 => last.calls[1].out \in {"raise", "UNKNOWN"}
          /\ \A i \in 1..Len(last.calls) : last.calls[i].arg = last.arg

\* both operations raised, and each was invoked once
C23_Witness ==
    /\ Ran("handle_client_request")
    /\ Ops = <<"cache_request", "is_cached">>
    /\ last.calls[1].out = "raise"
    /\ last.calls[2].out = "raise"
    /\ Len(storeLog) = 3
    /\ storeLog[1].op = "is_cached"

\* C24: a handle_client_request call queues at most one response to the
\* client, whatever the store answers or raises; when the response is the
\* 502 or the replay of a cached response (queued on the answer of
\* cache_request) the call returns None, and only the 500 of the fail-open
\* path goes with a returned request.
C24_AtMostOneResponse ==
    Ran("handle_client_request") =>
        /\ Len(last.queued) <= 1
        /\ (last.queued # <<>> /\ Len(last.calls) = 1) =>
              /\ last.ret = None
              /\ \/ last.queued[1].code = BAD_GATEWAY
                 \/ last.queued[1] = CachedResponse(Stored(last.arg.path))
        /\ (last.queued # <<>> /\ Len(last.calls) # 1) =>
              /\ Len(last.calls) = 2
              /\ last.queued[1].code = INTERNAL_SERVER_ERROR
              /\ last.ret = last.arg
        /\ (last.queued # <<>> /\ last.queued[1].code = BAD_GATEWAY) =>
              last.ret = None

\* a replay, then a 502, on one connection
C24_Witness ==
    /\ Ran("handle_client_request")
    /\ Len(last.queued) = 1
    /\ last.queued[1].code = BAD_GATEWAY
    /\ last.ret = None
    /\ Len(client[last.conn]) = 2
    /\ client[last.conn][1] = CachedResponse(Stored("/get"))

\* The entries a step added to the store's log.
Logged(n) == [i \in 1..n |-> storeLog'[Len(storeLog) + i]]

\* C25: the connections' instances hold different store handles, and every
\* hook invocation of a connection makes its store calls on that connection's
\* own handle and changes the recording of no other handle, however the
\* connections' hooks interleave: the chunks and the close of one connection
\* never reach the handle on which another connection's cache_request opened
\* a recording.
C25_OwnStoreOnly ==
    [][\A c \in Conns :
          ncalls'[c] # ncalls[c] =>
              /\ \A d \in Conns \ {c} : store[d] # store[c]
              /\ last'.conn = c
              /\ \A i \in 1..Len(last'.calls) : last'.calls[i].store = store[c]
              /\ Len(storeLog') = Len(storeLog) + Len(last'.calls)
              /\ \A i \in 1..Len(last'.calls) :
                    /\ Logged(Len(last'.calls))[i].store = store[c]
                    /\ Logged(Len(last'.calls))[i].op = last'.calls[i].op
              /\ \A h \in DOMAIN recording :
                    h # store[c] => recording'[h] = recording[h]]_vars

\* Connection A streamed a chunk and closed its store while the recording that
\* connection B's cache_request opened on B's store stays open.
C25_Witness ==
    /\ last.conn = "A"
    /\ RanEnabled("on_upstream_connection_close")
    /\ Ops = <<"close">>
    /\ ChunksSeen(store["A"]) # <<>>
    /\ ChunksSeen(store["B"]) = <<>>
    /\ ClosesSeen(store["B"]) = <<>>
    /\ recording[store["B"]] = "/test1"
    /\ recording[store["A"]] = NoneBytes
    /\ "/test1" \in cached

====
